---- MODULE Spec2Model ----
(***************************************************************************)
(* Model of src/iris.py: the linear classifier trainer for the Iris data   *)
(* set (split_dataset, get_predicted_label_vectors,                        *)
(* get_rounded_label_vector, get_next_weight_matrix,                       *)
(* train_linear_classifier, get_MSE, get_error_rate, get_confusion_matrix, *)
(* label_string_to_vector, label_vector_to_string).                        *)
(*                                                                         *)
(* Numbers.  The program computes in float64.  The model computes in exact *)
(* integer numerators over fixed denominators:                             *)
(*   - a predicted label entry g is the numerator of g over PS;            *)
(*   - a learning rate alpha is the numerator of alpha over AS;            *)
(*   - a weight w is the numerator of w over WS = PS^3 * AS;               *)
(*   - feature values and true label entries are integers;                 *)
(*   - an MSE is the numerator of the MSE over 2 * PS^2;                   *)
(*   - an error rate is the pair <<num_errors, num_samples>>.              *)
(* Sums, differences and products are exact in these units.  The logistic  *)
(* function is the one place where the model rounds: 1/(1+exp(-z)) is      *)
(* rounded to the nearest multiple of 1/PS.                                *)
(*                                                                         *)
(* Indices are Python's (0-based); At(s, i) reads element i of s.          *)
(***************************************************************************)
EXTENDS Integers, Sequences, FiniteSets, TLC

VARIABLES
    pc,         \* position of the call under study
    args,       \* the arguments of the call (a record)
    ret,        \* the value returned (or the exception raised)
    W,                                      \* train_linear_classifier locals
    curr_iteration,
    predicted_train_label_vectors,
    predicted_test_label_vectors,
    predicted_test_label_vectors_rounded,
    MSE_per_iteration,
    error_rate_per_iteration

trainVars == <<W, curr_iteration, predicted_train_label_vectors,
               predicted_test_label_vectors,
               predicted_test_label_vectors_rounded,
               MSE_per_iteration, error_rate_per_iteration>>

vars == <<pc, args, ret, W, curr_iteration, predicted_train_label_vectors,
          predicted_test_label_vectors, predicted_test_label_vectors_rounded,
          MSE_per_iteration, error_rate_per_iteration>>

(***************************************************************************)
(* Bounds of the model.                                                    *)
(***************************************************************************)
MaxVecLen == 4          \* longest vector given to get_rounded_label_vector
MaxClassListLen == 3    \* longest class list given to the label codec
MaxLabels == 3          \* longest label sequence given to get_confusion_matrix
MaxDataset == 6         \* largest dataset given to split_dataset
MaxSplitIndex == 3      \* largest split index given to split_dataset
MaxMSESamples == 2      \* most samples given to get_MSE
MaxStepSamples == 2     \* most samples given to get_next_weight_matrix
MaxTrainSamples == 2    \* most train samples given to train_linear_classifier
MaxIterations == 2      \* largest num_iterations

(***************************************************************************)
(* Number representation (see the header).                                 *)
(***************************************************************************)
PS == 4
AS == 100
WS == PS * PS * PS * AS

\* The class names of the data sets, in the (lexicographic) order np.unique
\* sorts them.
ClassNames == <<"A", "B", "C">>

\* Learning rates tried: 0.01 (the default) and 4.0, over AS.
Alphas == {1, 400}

\* The values of the one feature of a sample.
FeatureValues == {1, 2}

(***************************************************************************)
(* Generic helpers: Python sequences.                                      *)
(***************************************************************************)
At(s, i) == s[i + 1]

Range(s) == {s[i] : i \in 1..Len(s)}

RECURSIVE SumSeq(_)
SumSeq(s) == IF s = <<>> THEN 0 ELSE Head(s) + SumSeq(Tail(s))

RECURSIVE Flatten(_)
Flatten(ss) == IF ss = <<>> THEN <<>> ELSE Head(ss) \o Flatten(Tail(ss))

\* An array whose elements are computed once, when it is built (the value is
\* the sequence s itself).
Array(s) == s \o <<>>

\* F(v), with v evaluated once.
With(v, F(_)) == CHOOSE r \in {F(x) : x \in {v}} : TRUE

SeqsUpTo(S, lo, hi) == UNION {[1..n -> S] : n \in lo..hi}

OneHots(n) == {[i \in 1..n |-> IF i = k THEN 1 ELSE 0] : k \in 1..n}

Ok(v) == [ok |-> TRUE, val |-> v, err |-> "none"]
Raise(e) == [ok |-> FALSE, val |-> <<>>, err |-> e]

NoRet == [ok |-> FALSE, val |-> <<>>, err |-> "not returned"]

TrainIdle ==
    /\ W = <<>>
    /\ curr_iteration = -1
    /\ predicted_train_label_vectors = <<>>
    /\ predicted_test_label_vectors = <<>>
    /\ predicted_test_label_vectors_rounded = <<>>
    /\ MSE_per_iteration = <<>>
    /\ error_rate_per_iteration = <<>>

(***************************************************************************)
(* np.argmax: the index of the first maximal element.  The scan keeps the  *)
(* best index so far and replaces it only on a strictly greater element.   *)
(***************************************************************************)
RECURSIVE ArgmaxScanLast(_, _, _)
ArgmaxScanLast(v, i, best) ==
    IF i >= Len(v) THEN best
    ELSE ArgmaxScanLast(v, i + 1, IF At(v, i) >= At(v, best) THEN i ELSE best)

ArgmaxLast(v) == ArgmaxScanLast(v, 1, 0)

RECURSIVE ArgmaxScan(_, _, _)
ArgmaxScan(v, i, best) ==
    IF i >= Len(v) THEN best
    ELSE ArgmaxScan(v, i + 1, IF At(v, i) > At(v, best) THEN i ELSE best)

Argmax(v) == ArgmaxScan(v, 1, 0)

(***************************************************************************)
(* get_rounded_label_vector (lines 62-66).                                 *)
(***************************************************************************)
get_rounded_label_vector(label_vector) ==
    LET index == Argmax(label_vector)
    IN  [k \in 1..Len(label_vector) |-> IF k - 1 = index THEN 1 ELSE 0]

RoundInit ==
    /\ pc = "call"
    /\ \E v \in SeqsUpTo(-1..2, 1, MaxVecLen) : args = [label_vector |-> v]
    /\ ret = NoRet
    /\ TrainIdle

Round_Call ==
    /\ pc = "call"
    /\ ret' = Ok(get_rounded_label_vector(args.label_vector))
    /\ pc' = "done"
    /\ UNCHANGED <<args, trainVars>>

RoundNext == Round_Call

RoundSpec == RoundInit /\ [][RoundNext]_vars

\* C9: for every non-empty numeric vector v, get_rounded_label_vector(v) has
\* the length of v, contains only 0 and 1, sums to exactly 1, and its single
\* 1 is at the first index at which v attains its maximum.
C9_RoundedIsOneHotAtFirstMax ==
    pc = "done" =>
        LET v == args.label_vector
            r == ret.val
            maxv == CHOOSE m \in Range(v) : \A x \in Range(v) : x <= m
            first == CHOOSE i \in 1..Len(v) :
                        /\ v[i] = maxv
                        /\ \A j \in 1..(i - 1) : v[j] # maxv
        IN  /\ ret.ok
            /\ Len(r) = Len(v)
            /\ \A k \in 1..Len(r) : r[k] \in {0, 1}
            /\ SumSeq(r) = 1
            /\ r[first] = 1

\* C9 witness: a vector whose maximum occurs twice, not at index 0, rounded.
C9_Witness ==
    /\ pc = "done"
    /\ Len(args.label_vector) = 3
    /\ args.label_vector[1] < args.label_vector[2]
    /\ args.label_vector[2] = args.label_vector[3]
    /\ ret.val = <<0, 1, 0>>

(***************************************************************************)
(* Label codec (lines 166-177).                                            *)
(***************************************************************************)
\* np.where(classes == string_label)[0]: the indices, ascending, at which the
\* label occurs in the class list.
RECURSIVE WhereEqual(_, _, _)
WhereEqual(s, x, i) ==
    IF i >= Len(s) THEN <<>>
    ELSE (IF At(s, i) = x THEN <<i>> ELSE <<>>) \o WhereEqual(s, x, i + 1)

\* np.reshape(a, n) of a two-dimensional array: the elements in row-major
\* order when there are exactly n of them, ValueError otherwise.
Reshape1D(rows, n) ==
    IF Len(Flatten(rows)) = n THEN Ok(Flatten(rows)) ELSE Raise("ValueError")

label_string_to_vector_OffByOne(string_label, classes) ==
    LET index == WhereEqual(classes, string_label, 0)
        vector_label ==
            [k \in 1..Len(classes) |->
                [j \in 1..Len(index) |-> IF k = index[j] THEN 1 ELSE 0]]
    IN  Reshape1D(vector_label, Len(vector_label))

\* line 168 compares each i of range(len(classes)) with the index array, which
\* gives one row per class and one column per occurrence of the label.
label_string_to_vector(string_label, classes) ==
    LET index == WhereEqual(classes, string_label, 0)
        vector_label ==
            [k \in 1..Len(classes) |->
                [j \in 1..Len(index) |-> IF k - 1 = index[j] THEN 1 ELSE 0]]
    IN  Reshape1D(vector_label, Len(vector_label))

label_vector_to_string(vector_label, classes) ==
    LET index == Argmax(vector_label)
    IN  At(classes, index)

ClassNameSet == Range(ClassNames)

CodecInit ==
    /\ pc = "encode"
    /\ \E l \in ClassNameSet, cs \in SeqsUpTo(ClassNameSet, 1, MaxClassListLen) :
          args = [string_label |-> l, classes |-> cs]
    /\ ret = [vector |-> NoRet, string |-> NoRet]
    /\ TrainIdle

\* main, line 270: label_string_to_vector(label, classes)
Codec_Encode ==
    /\ pc = "encode"
    /\ ret' = [ret EXCEPT
                 !.vector = label_string_to_vector(args.string_label, args.classes)]
    /\ pc' = IF ret'.vector.ok THEN "decode" ELSE "raised"
    /\ UNCHANGED <<args, trainVars>>

\* main, line 299: label_vector_to_string(label, classes)
Codec_Decode ==
    /\ pc = "decode"
    /\ ret' = [ret EXCEPT
                 !.string = Ok(label_vector_to_string(ret.vector.val, args.classes))]
    /\ pc' = "done"
    /\ UNCHANGED <<args, trainVars>>

CodecNext == Codec_Encode \/ Codec_Decode

CodecSpec == CodecInit /\ [][CodecNext]_vars

IsDuplicateFree(s) == \A i, j \in 1..Len(s) : s[i] = s[j] => i = j

\* C10: for every ordered, duplicate-free class list and every label in it,
\* label_string_to_vector yields a one-hot vector of length |classes| with its
\* 1 at the label's position, and label_vector_to_string applied to that
\* vector with the same class list returns the original label.
C10_EncodeDecodeRoundTrip ==
    (/\ pc \notin {"encode"}
     /\ IsDuplicateFree(args.classes)
     /\ args.string_label \in Range(args.classes)) =>
        /\ ret.vector.ok
        /\ Len(ret.vector.val) = Len(args.classes)
        /\ \A k \in 1..Len(args.classes) :
              ret.vector.val[k] = (IF args.classes[k] = args.string_label THEN 1 ELSE 0)
        /\ pc # "raised"
        /\ pc = "done" => (ret.string.ok /\ ret.string.val = args.string_label)

\* C10 witness: a label that is not first in a three-class list, encoded and
\* decoded.
C10_Witness ==
    /\ pc = "done"
    /\ args.classes = <<"B", "C", "A">>
    /\ args.string_label = "A"
    /\ ret.vector.val = <<0, 0, 1>>
    /\ ret.string.val = "A"

(***************************************************************************)
(* np.unique on label strings: the distinct labels, sorted.                *)
(***************************************************************************)
Unique(labels) == SelectSeq(ClassNames, LAMBDA c : c \in Range(labels))

\* np.intersect1d of two index arrays, as the set of common indices.
Intersect1d(a, b) == Range(a) \cap Range(b)

(***************************************************************************)
(* get_confusion_matrix (lines 144-164).  The classes are the distinct     *)
(* TRUE labels (line 145); rows are predicted classes, columns true ones.  *)
(***************************************************************************)
get_confusion_matrix(predicted_labels, labels) ==
    LET classes == Unique(labels)
    IN  [p \in 1..Len(classes) |->
            [t \in 1..Len(classes) |->
                LET true_indices == WhereEqual(labels, classes[t], 0)
                    predicted_indices == WhereEqual(predicted_labels, classes[p], 0)
                IN  Cardinality(Intersect1d(true_indices, predicted_indices))]]

ConfusionInit ==
    /\ pc = "call"
    /\ \E n \in 1..MaxLabels :
          \E pl \in [1..n -> ClassNameSet], tl \in [1..n -> ClassNameSet] :
             args = [predicted_labels |-> pl, labels |-> tl]
    /\ ret = NoRet
    /\ TrainIdle

\* main, line 303
Confusion_Call ==
    /\ pc = "call"
    /\ ret' = Ok(get_confusion_matrix(args.predicted_labels, args.labels))
    /\ pc' = "done"
    /\ UNCHANGED <<args, trainVars>>

ConfusionNext == Confusion_Call

ConfusionSpec == ConfusionInit /\ [][ConfusionNext]_vars

CountOf(s, x) == Cardinality({i \in 1..Len(s) : s[i] = x})

Column(m, t) == [p \in 1..Len(m) |-> m[p][t]]

\* C6: get_confusion_matrix returns a matrix whose cell (p, t) is the number
\* of indices i with predicted[i] = p and true[i] = t, so that the sum of all
\* cells is the sample count, the sum of row p is the number of samples
\* predicted as p and the sum of column t is the number of samples truly
\* labeled t; also when a class is predicted but never occurs among the true
\* labels.
C6_ConfusionMatrixCounts ==
    pc = "done" =>
        LET m == ret.val
            classes == Unique(args.labels)
            RowOf(c) == CHOOSE p \in 1..Len(classes) : classes[p] = c
        IN  /\ SumSeq(Flatten(m)) = Len(args.labels)
            /\ \A c \in Range(args.predicted_labels) :
                  /\ c \in Range(classes)
                  /\ SumSeq(m[RowOf(c)]) = CountOf(args.predicted_labels, c)
            /\ \A c \in Range(args.labels) :
                  SumSeq(Column(m, RowOf(c))) = CountOf(args.labels, c)
            /\ \A p, t \in 1..Len(classes) :
                  m[p][t] = Cardinality({i \in 1..Len(args.labels) :
                                /\ args.predicted_labels[i] = classes[p]
                                /\ args.labels[i] = classes[t]})

(***************************************************************************)
(* Matrices, as sequences of rows.                                         *)
(***************************************************************************)
Transpose(m) ==
    IF m = <<>> THEN <<>>
    ELSE Array([c \in 1..Len(m[1]) |-> Array([r \in 1..Len(m) |-> m[r][c]])])

\* np.matmul of an (r x n) and an (n x c) matrix
MatMul(a, b) ==
    Array([r \in 1..Len(a) |->
        Array([c \in 1..Len(b[1]) |->
            SumSeq([k \in 1..Len(b) |-> a[r][k] * b[k][c]])])])

\* predicted - true, elementwise; predicted is over PS, true is integral, the
\* difference is over PS.
LabelError(predicted, true) ==
    Array([k \in 1..Len(predicted) |->
        Array([c \in 1..Len(predicted[k]) |-> predicted[k][c] - PS * true[k][c]])])

(***************************************************************************)
(* get_MSE (lines 126-129): error^T . error is a (classes x classes)       *)
(* matrix; np.sum adds ALL its entries; the result is halved.  The value   *)
(* returned here is the numerator over 2 * PS^2.                           *)
(***************************************************************************)
get_MSE(predicted_label_vectors, true_label_vectors) ==
    With(LabelError(predicted_label_vectors, true_label_vectors), LAMBDA error :
    With(Transpose(error), LAMBDA error_T :
        SumSeq(Flatten(MatMul(error_T, error)))))

\* predictions 0, 0.5 and 1
MSEPredictedValues == {0, 2, 4}

MSEInit ==
    /\ pc = "call"
    /\ \E n \in 1..MaxMSESamples, c \in 2..3 :
          \E p \in [1..n -> [1..c -> MSEPredictedValues]],
             t \in [1..n -> OneHots(c)] :
             args = [predicted_label_vectors |-> p, true_label_vectors |-> t]
    /\ ret = NoRet
    /\ TrainIdle

MSE_Call ==
    /\ pc = "call"
    /\ ret' = Ok(get_MSE(args.predicted_label_vectors, args.true_label_vectors))
    /\ pc' = "done"
    /\ UNCHANGED <<args, trainVars>>

MSENext == MSE_Call

MSESpec == MSEInit /\ [][MSENext]_vars

\* the sum over every sample and class of the squared error, over PS^2
SumOfSquaredErrors(predicted, true) ==
    LET error == LabelError(predicted, true)
    IN  SumSeq(Flatten([k \in 1..Len(error) |->
                          [c \in 1..Len(error[k]) |-> error[k][c] * error[k][c]]]))

\* C4: get_MSE returns one half of the sum, over every sample k and class c,
\* of (predicted[k][c] - true[k][c]) squared.
C4_MSEIsHalfSumOfSquares ==
    pc = "done" =>
        ret.val = SumOfSquaredErrors(args.predicted_label_vectors,
                                     args.true_label_vectors)

\* C5: get_MSE is >= 0, and it is 0 if and only if predicted[k][c] equals
\* true[k][c] for every sample k and every class c.
C5_MSEZeroIffExact ==
    pc = "done" =>
        /\ ret.val >= 0
        /\ (ret.val = 0) <=>
              (\A k \in 1..Len(args.predicted_label_vectors) :
                 \A c \in 1..Len(args.predicted_label_vectors[k]) :
                    args.predicted_label_vectors[k][c]
                        = PS * args.true_label_vectors[k][c])

(***************************************************************************)
(* split_dataset (lines 25-43).                                            *)
(***************************************************************************)
Min(a, b) == IF a < b THEN a ELSE b
Max(a, b) == IF a > b THEN a ELSE b

\* Python's slice bound: a negative bound counts from the end, and every
\* bound is clipped to 0..len.
SliceBound(len, k) == IF k < 0 THEN Max(len + k, 0) ELSE Min(k, len)

\* s[:k] and s[k:]
SliceTo(s, k) == SubSeq(s, 1, SliceBound(Len(s), k))
SliceFrom(s, k) == SubSeq(s, SliceBound(Len(s), k) + 1, Len(s))

\* ndarray.take on a one-dimensional array
Take(s, indices) == [j \in 1..Len(indices) |-> At(s, indices[j])]

\* np.array of a list of index arrays is two-dimensional only when the arrays
\* are equally long (and there is at least one).
IsRectangular(rows) ==
    /\ Len(rows) >= 1
    /\ \A i, j \in 1..Len(rows) : Len(rows[i]) = Len(rows[j])

\* What lines 32-34 raise on index arrays of unequal length depends on the
\* numpy build: ValueError at line 32 (inhomogeneous shape), or a
\* one-dimensional object array and then IndexError at line 34.
RaggedErrors == {"ValueError", "IndexError"}

split_dataset(samples, labels, split_index, ragged_error) ==
    LET classes == Unique(labels)
        indices_by_class ==
            [c \in 1..Len(classes) |-> WhereEqual(labels, classes[c], 0)]
        first_set_indices_by_class ==
            [c \in 1..Len(classes) |-> SliceTo(indices_by_class[c], split_index)]
        last_set_indices_by_class ==
            [c \in 1..Len(classes) |-> SliceFrom(indices_by_class[c], split_index)]
        first_set_indices == Flatten(first_set_indices_by_class)
        last_set_indices == Flatten(last_set_indices_by_class)
        first_set == <<Take(samples, first_set_indices), Take(labels, first_set_indices)>>
        last_set == <<Take(samples, last_set_indices), Take(labels, last_set_indices)>>
    IN  IF IsRectangular(indices_by_class)
        THEN Ok(<<first_set, last_set>>)
        ELSE Raise(ragged_error)

\* A sample is modelled by its row number in the data file: split_dataset
\* never looks into a sample, and the row number tells the samples apart.
SplitInit ==
    /\ pc = "call"
    /\ \E ls \in SeqsUpTo(ClassNameSet, 1, MaxDataset),
          si \in (0 - 2)..MaxSplitIndex :
          args = [samples |-> [i \in 1..Len(ls) |-> i - 1], labels |-> ls,
                  split_index |-> si]
    /\ ret = NoRet
    /\ TrainIdle

\* main, line 260
Split_Call ==
    /\ pc = "call"
    /\ \E e \in RaggedErrors :
          ret' = split_dataset(args.samples, args.labels, args.split_index, e)
    /\ pc' = "done"
    /\ UNCHANGED <<args, trainVars>>

SplitNext == Split_Call

SplitSpec == SplitInit /\ [][SplitNext]_vars

\* the <<sample, label>> pairs of a set, in order
Pairs(set) == [i \in 1..Len(set[1]) |-> <<set[1][i], set[2][i]>>]

OfClass(pairs, c) == SelectSeq(pairs, LAMBDA p : p[2] = c)

SmallestClassSize(labels) ==
    LET sizes == {CountOf(labels, c) : c \in Range(labels)}
    IN  CHOOSE m \in sizes : \A x \in sizes : m <= x

\* C7: for every dataset and every split index s with 0 <= s <= size of the
\* smallest class, split_dataset puts, for each class, exactly the first s
\* samples of the class (in original order) into the first set and the
\* remaining ones into the last set, each sample with its own label; this for
\* classes of unequal size as well as of equal size.
C7_SplitPerClass ==
    (/\ pc = "done"
     /\ 0 <= args.split_index
     /\ args.split_index <= SmallestClassSize(args.labels)) =>
        /\ ret.ok
        /\ LET all == Pairs(<<args.samples, args.labels>>)
               first == Pairs(ret.val[1])
               last == Pairs(ret.val[2])
           IN  /\ \A c \in Range(args.labels) :
                     /\ OfClass(first, c)
                           = SubSeq(OfClass(all, c), 1, args.split_index)
                     /\ OfClass(last, c)
                           = SubSeq(OfClass(all, c), args.split_index + 1,
                                    Len(OfClass(all, c)))
               /\ Range(first) \cap Range(last) = {}
               /\ Len(first) + Len(last) = Len(all)

\* C8: split_dataset called with a split index that is negative or larger
\* than the size of the smallest class ends in the error InvalidSplitIndex
\* and returns no first or last set.
C8_InvalidSplitIndexRaises ==
    (/\ pc = "done"
     /\ \/ args.split_index < 0
        \/ args.split_index > SmallestClassSize(args.labels)) =>
        /\ ~ret.ok
        /\ ret.err = "InvalidSplitIndex"

(***************************************************************************)
(* get_predicted_label_vectors (lines 53-58).                              *)
(***************************************************************************)
\* 1/(1+exp(-z)) for z over WS, rounded to the nearest multiple of 1/PS:
\* the result is k/PS from the k-th cut on.  The cuts are ln(1/7), ln(3/5),
\* ln(5/3) and ln(7), where the logistic function passes 1/8, 3/8, 5/8 and
\* 7/8, times WS.
LogisticCuts == <<-12453, -3269, 3270, 12454>>

Logistic(z) == Cardinality({k \in 1..Len(LogisticCuts) : z >= LogisticCuts[k]})

\* np.matmul of a matrix and a vector
MatVec(m, v) ==
    Array([r \in 1..Len(m) |-> SumSeq([j \in 1..Len(v) |-> m[r][j] * v[j]])])

get_predicted_label_vectors(samples, Wm) ==
    Array([k \in 1..Len(samples) |->
        With(MatVec(Wm, samples[k]),
             LAMBDA z : Array([c \in 1..Len(z) |-> Logistic(z[c])]))])

(***************************************************************************)
(* get_next_weight_matrix (lines 74-86).                                   *)
(***************************************************************************)
\* line 76 (and line 94)
num_classes == 3

\* np.reshape(v, (rows, 1)): a column, when v has exactly `rows` elements
ReshapeColumn(v, rows) ==
    IF Len(v) = rows
    THEN Ok(Array([r \in 1..rows |-> <<v[r]>>]))
    ELSE Raise("ValueError")

MatAdd(a, b) ==
    Array([r \in 1..Len(a) |-> Array([c \in 1..Len(a[r]) |-> a[r][c] + b[r][c]])])

\* Python's sum of a sequence of matrices (starting from the scalar 0)
RECURSIVE SumMatrices(_)
SumMatrices(ms) ==
    IF Len(ms) = 1 THEN ms[1]
    ELSE With(SumMatrices(SubSeq(ms, 1, Len(ms) - 1)),
              LAMBDA partial : MatAdd(partial, ms[Len(ms)]))

\* line 82, one term of the sum: the (num_classes x 1) column of sample k
\* times its (1 x (num_features+1)) row
GradientTerm(grad_g_MSE_k, grad_z_g_k, grad_W_z_k) ==
    With(ReshapeColumn(Array([c \in 1..Len(grad_g_MSE_k) |->
                                 grad_g_MSE_k[c] * grad_z_g_k[c]]), num_classes),
         LAMBDA column :
            IF column.ok THEN Ok(MatMul(column.val, grad_W_z_k)) ELSE column)

get_next_weight_matrix(predicted_labels, labels, samples, previous_W, alpha) ==
    With(LabelError(predicted_labels, labels), LAMBDA grad_g_MSE :
    With(Array([k \in 1..Len(predicted_labels) |->
            Array([c \in 1..Len(predicted_labels[k]) |->
                predicted_labels[k][c] * (PS - predicted_labels[k][c])])]),
         LAMBDA grad_z_g :
    With(Array([k \in 1..Len(samples) |-> <<samples[k]>>]), LAMBDA grad_W_z :
    With(Array([k \in 1..Len(grad_g_MSE) |->
            GradientTerm(grad_g_MSE[k], grad_z_g[k], grad_W_z[k])]),
         LAMBDA terms :
            IF \E k \in 1..Len(terms) : ~terms[k].ok
            THEN Raise("ValueError")
            ELSE With(SumMatrices(Array([k \in 1..Len(terms) |-> terms[k].val])),
                      LAMBDA grad_W_MSE :
                         Ok(Array([c \in 1..Len(previous_W) |->
                               Array([j \in 1..Len(previous_W[c]) |->
                                   previous_W[c][j] - alpha * grad_W_MSE[c][j]])])))))))

\* np.zeros((rows, cols))
Zeros(rows, cols) == Array([r \in 1..rows |-> Array([c \in 1..cols |-> 0])])

\* a sample with one feature and the trailing 1 (main, lines 265-266)
SamplesWithBias(values) == {<<x, 1>> : x \in values}

\* predictions 0.5 and 0.75
StepPredictedValues == {2, 3}

StepInit ==
    /\ pc = "call"
    /\ \E n \in 1..MaxStepSamples, c \in 2..3 :
          \E p \in [1..n -> [1..c -> StepPredictedValues]],
             t \in [1..n -> OneHots(c)],
             x \in [1..n -> SamplesWithBias(FeatureValues)],
             w \in {Zeros(c, 2), [r \in 1..c |-> <<100 * r, 0 - 300>>]},
             a \in {1, 100} :
             args = [predicted_labels |-> p, labels |-> t, samples |-> x,
                     previous_W |-> w, alpha |-> a]
    /\ ret = NoRet
    /\ TrainIdle

Step_Call ==
    /\ pc = "call"
    /\ ret' = get_next_weight_matrix(args.predicted_labels, args.labels,
                                     args.samples, args.previous_W, args.alpha)
    /\ pc' = "done"
    /\ UNCHANGED <<args, trainVars>>

StepNext == Step_Call

StepSpec == StepInit /\ [][StepNext]_vars

\* C3: for every number of classes C, every n >= 1 and all equal-length
\* inputs, get_next_weight_matrix returns
\* W - alpha * SUM_k outer((predicted_k - true_k) * predicted_k * (1 - predicted_k), sample_k),
\* a C x (numFeatures+1) matrix; in particular in the two-class case.
C3_GradientStepClosedForm ==
    pc = "done" =>
        /\ ret.ok
        /\ ret.val =
              [c \in 1..Len(args.previous_W) |->
                 [j \in 1..Len(args.samples[1]) |->
                    args.previous_W[c][j]
                      - args.alpha
                        * SumSeq([k \in 1..Len(args.samples) |->
                             (args.predicted_labels[k][c] - PS * args.labels[k][c])
                               * args.predicted_labels[k][c]
                               * (PS - args.predicted_labels[k][c])
                               * args.samples[k][j]])]]

(***************************************************************************)
(* get_error_rate (lines 133-142): the pair <<num_errors, num_samples>>    *)
(* stands for the quotient num_errors / num_samples.                       *)
(***************************************************************************)
get_error_rate(predicted_label_vectors, true_label_vectors) ==
    LET num_samples == Len(true_label_vectors)
        num_errors ==
            Cardinality({i \in 1..Len(true_label_vectors) :
                            true_label_vectors[i] # predicted_label_vectors[i]})
    IN  <<num_errors, num_samples>>

(***************************************************************************)
(* train_linear_classifier (lines 92-121), one action per statement of     *)
(* the loop.  pc names the line about to run.  curr_iteration is -1 before *)
(* the first iteration, as no value is bound to it then.  The eval set is  *)
(* the train set itself (main, lines 273-277) or a set of its own (main,   *)
(* lines 283-287).                                                         *)
(***************************************************************************)
LabelledSamples(n, values) ==
    {[samples |-> x, label_vectors |-> t] :
        x \in [1..n -> SamplesWithBias(values)],
        t \in [1..n -> OneHots(num_classes)]}

TrainInitOver(values, alphas) ==
    /\ pc = "L93"
    /\ \E train \in UNION {LabelledSamples(n, values) : n \in 1..MaxTrainSamples},
          n_it \in 0..MaxIterations, a \in alphas :
       \E test \in {train} \cup LabelledSamples(1, {2}) :
          args = [train_samples |-> train.samples,
                  train_label_vectors |-> train.label_vectors,
                  test_samples |-> test.samples,
                  test_label_vectors |-> test.label_vectors,
                  features |-> <<"Feature 0">>,
                  num_iterations |-> n_it,
                  alpha |-> a]
    /\ ret = NoRet
    /\ TrainIdle

TrainInit == TrainInitOver(FeatureValues, Alphas)

\* lines 93-101
Train_Enter ==
    /\ pc = "L93"
    /\ LET num_features == Len(args.features)
       IN  W' = Zeros(num_classes, num_features + 1)
    /\ MSE_per_iteration' = <<>>
    /\ error_rate_per_iteration' = <<>>
    /\ pc' = "L103"
    /\ UNCHANGED <<args, ret, curr_iteration, predicted_train_label_vectors,
                   predicted_test_label_vectors,
                   predicted_test_label_vectors_rounded>>

\* the loop entered once more than range(num_iterations) allows
Train_For_OneMore ==
    /\ pc = "L103"
    /\ IF curr_iteration + 1 <= args.num_iterations
       THEN /\ curr_iteration' = curr_iteration + 1
            /\ pc' = "L105"
       ELSE /\ pc' = "L121"
            /\ UNCHANGED curr_iteration
    /\ UNCHANGED <<args, ret, W, predicted_train_label_vectors,
                   predicted_test_label_vectors,
                   predicted_test_label_vectors_rounded,
                   MSE_per_iteration, error_rate_per_iteration>>

\* line 103: for curr_iteration in range(num_iterations)
Train_For ==
    /\ pc = "L103"
    /\ IF curr_iteration + 1 < args.num_iterations
       THEN /\ curr_iteration' = curr_iteration + 1
            /\ pc' = "L105"
       ELSE /\ pc' = "L121"
            /\ UNCHANGED curr_iteration
    /\ UNCHANGED <<args, ret, W, predicted_train_label_vectors,
                   predicted_test_label_vectors,
                   predicted_test_label_vectors_rounded,
                   MSE_per_iteration, error_rate_per_iteration>>

\* line 105
Train_PredictTrain ==
    /\ pc = "L105"
    /\ predicted_train_label_vectors' =
          get_predicted_label_vectors(args.train_samples, W)
    /\ pc' = "L106"
    /\ UNCHANGED <<args, ret, W, curr_iteration, predicted_test_label_vectors,
                   predicted_test_label_vectors_rounded,
                   MSE_per_iteration, error_rate_per_iteration>>

\* the eval predictions made from the weights of before the update
Train_UpdateW_EvalOnOldW ==
    /\ pc = "L106"
    /\ LET next_W == get_next_weight_matrix(predicted_train_label_vectors,
                         args.train_label_vectors, args.train_samples, W,
                         args.alpha)
       IN  IF next_W.ok
           THEN /\ W' = next_W.val
                /\ predicted_test_label_vectors' =
                      get_predicted_label_vectors(args.test_samples, W)
                /\ pc' = "L110"
                /\ UNCHANGED ret
           ELSE /\ ret' = next_W
                /\ pc' = "raised"
                /\ UNCHANGED <<W, predicted_test_label_vectors>>
    /\ UNCHANGED <<args, curr_iteration, predicted_train_label_vectors,
                   predicted_test_label_vectors_rounded,
                   MSE_per_iteration, error_rate_per_iteration>>

\* line 106
Train_UpdateW ==
    /\ pc = "L106"
    /\ LET next_W == get_next_weight_matrix(predicted_train_label_vectors,
                         args.train_label_vectors, args.train_samples, W,
                         args.alpha)
       IN  IF next_W.ok
           THEN /\ W' = next_W.val
                /\ pc' = "L109"
                /\ UNCHANGED ret
           ELSE /\ ret' = next_W
                /\ pc' = "raised"
                /\ UNCHANGED W
    /\ UNCHANGED <<args, curr_iteration, predicted_train_label_vectors,
                   predicted_test_label_vectors,
                   predicted_test_label_vectors_rounded,
                   MSE_per_iteration, error_rate_per_iteration>>

\* line 109
Train_PredictTest ==
    /\ pc = "L109"
    /\ predicted_test_label_vectors' =
          get_predicted_label_vectors(args.test_samples, W)
    /\ pc' = "L110"
    /\ UNCHANGED <<args, ret, W, curr_iteration, predicted_train_label_vectors,
                   predicted_test_label_vectors_rounded,
                   MSE_per_iteration, error_rate_per_iteration>>

\* lines 110-113
Train_Round ==
    /\ pc = "L110"
    /\ predicted_test_label_vectors_rounded' =
          [k \in 1..Len(predicted_test_label_vectors) |->
              get_rounded_label_vector(predicted_test_label_vectors[k])]
    /\ pc' = "L115"
    /\ UNCHANGED <<args, ret, W, curr_iteration, predicted_train_label_vectors,
                   predicted_test_label_vectors,
                   MSE_per_iteration, error_rate_per_iteration>>

\* lines 115-116
Train_AppendMSE ==
    /\ pc = "L115"
    /\ LET curr_MSE == get_MSE(predicted_test_label_vectors,
                               args.test_label_vectors)
       IN  MSE_per_iteration' = Append(MSE_per_iteration, curr_MSE)
    /\ pc' = "L118"
    /\ UNCHANGED <<args, ret, W, curr_iteration, predicted_train_label_vectors,
                   predicted_test_label_vectors,
                   predicted_test_label_vectors_rounded,
                   error_rate_per_iteration>>

\* lines 118-119, and back to the head of the loop
Train_AppendErrorRate ==
    /\ pc = "L118"
    /\ LET curr_error_rate ==
               get_error_rate(predicted_test_label_vectors_rounded,
                              args.test_label_vectors)
       IN  error_rate_per_iteration' =
               Append(error_rate_per_iteration, curr_error_rate)
    /\ pc' = "L103"
    /\ UNCHANGED <<args, ret, W, curr_iteration, predicted_train_label_vectors,
                   predicted_test_label_vectors,
                   predicted_test_label_vectors_rounded, MSE_per_iteration>>

\* line 121
Train_Return ==
    /\ pc = "L121"
    /\ ret' = Ok([W |-> W, MSE_per_iteration |-> MSE_per_iteration,
                  error_rate_per_iteration |-> error_rate_per_iteration])
    /\ pc' = "done"
    /\ UNCHANGED <<args, trainVars>>

TrainNext ==
    \/ Train_Enter
    \/ Train_For
    \/ Train_PredictTrain
    \/ Train_UpdateW
    \/ Train_PredictTest
    \/ Train_Round
    \/ Train_AppendMSE
    \/ Train_AppendErrorRate
    \/ Train_Return

TrainSpec == TrainInit /\ [][TrainNext]_vars

\* The function runs to its end once called: nothing but its own statements
\* decides whether the next statement runs.
\* The runs checked for termination take every iteration count and one more
\* learning rate (1.0), on samples of one feature value.
FairTrainInit == TrainInitOver({2}, Alphas \cup {100})

FairTrainSpec == FairTrainInit /\ [][TrainNext]_vars /\ WF_vars(TrainNext)

\* the weight matrix after i gradient steps from the all-zero matrix
RECURSIVE WAfter(_)
WAfter(i) ==
    IF i = 0 THEN Zeros(num_classes, Len(args.features) + 1)
    ELSE LET prev == WAfter(i - 1)
         IN  get_next_weight_matrix(
                 get_predicted_label_vectors(args.train_samples, prev),
                 args.train_label_vectors, args.train_samples, prev,
                 args.alpha).val

HasReturned ==
    /\ pc = "done"
    /\ ret.ok
    /\ Len(ret.val.MSE_per_iteration) = args.num_iterations
    /\ Len(ret.val.error_rate_per_iteration) = args.num_iterations
    /\ curr_iteration = args.num_iterations - 1
    /\ args.num_iterations = 0 =>
          /\ ret.val.W = Zeros(num_classes, Len(args.features) + 1)
          /\ ret.val.MSE_per_iteration = <<>>
          /\ ret.val.error_rate_per_iteration = <<>>

\* C1: for every iteration count N >= 0 and every learning rate,
\* train_linear_classifier terminates after exactly N gradient steps and
\* returns an MSE series and an error-rate series of exactly N entries each;
\* for N = 0 the returned W is all-zero and both series are empty.
C1_RunsExactlyNIterations ==
    /\ [](pc \in {"done", "raised"} => HasReturned)
    /\ <>(pc = "done")

\* C1 witness: a run of two iterations has returned, with weights that the
\* two gradient steps have moved away from zero.
C1_Witness ==
    /\ pc = "done"
    /\ args.num_iterations = 2
    /\ Len(ret.val.MSE_per_iteration) = 2
    /\ ret.val.W # Zeros(num_classes, 2)
    /\ ret.val.W # WAfter(1)

\* the metrics of the eval set under the weights after i gradient steps
MSEAfter(i) ==
    get_MSE(get_predicted_label_vectors(args.test_samples, WAfter(i)),
            args.test_label_vectors)

ErrorRateAfter(i) ==
    LET soft == get_predicted_label_vectors(args.test_samples, WAfter(i))
    IN  get_error_rate([k \in 1..Len(soft) |-> get_rounded_label_vector(soft[k])],
                       args.test_label_vectors)

\* C2: in every iteration i the train samples are predicted with W as it was
\* before the iteration, W is then replaced by the gradient step computed
\* from those predictions, and the i-th MSE and error-rate entries are
\* computed from eval predictions made with the new W (after i updates); the
\* W returned is the W used for the last appended entries.
C2_MetricsUseUpdatedW ==
    /\ \A i \in 1..Len(MSE_per_iteration) : MSE_per_iteration[i] = MSEAfter(i)
    /\ \A i \in 1..Len(error_rate_per_iteration) :
          error_rate_per_iteration[i] = ErrorRateAfter(i)
    /\ pc = "L106" =>
          /\ W = WAfter(curr_iteration)
          /\ predicted_train_label_vectors =
                get_predicted_label_vectors(args.train_samples,
                                            WAfter(curr_iteration))
    /\ pc \in {"L109", "L110", "L115", "L118"} => W = WAfter(curr_iteration + 1)
    /\ pc \in {"L110", "L115", "L118"} =>
          predicted_test_label_vectors =
              get_predicted_label_vectors(args.test_samples,
                                          WAfter(curr_iteration + 1))
    /\ pc = "done" =>
          /\ ret.val.W = WAfter(Len(ret.val.MSE_per_iteration))
          /\ Len(ret.val.MSE_per_iteration) = Len(ret.val.error_rate_per_iteration)

\* C2 witness: the second iteration has appended an MSE that differs from the
\* one the weights of before that iteration's update give.
C2_Witness ==
    /\ pc = "L118"
    /\ curr_iteration = 1
    /\ Len(MSE_per_iteration) = 2
    /\ MSE_per_iteration[2] # MSEAfter(1)
    /\ MSE_per_iteration[1] # MSEAfter(0)

====
